---- MODULE Spec2Model ----
(***************************************************************************)
(* PawGuardian (src/app.py): one user-triggered run of the two-stage       *)
(* agent.  The Observer model returns text that is cleaned and parsed into *)
(* an observation; when a subject is detected the decision model is asked  *)
(* once, the function calls of its first response are dispatched in order, *)
(* and their outcomes are fed back in a second model turn.                 *)
(*                                                                         *)
(* The hosted models, the messaging provider and the UI framework are      *)
(* external: what they return (or whether they raise) is an input, drawn   *)
(* with \E from the sets below.                                            *)
(***************************************************************************)
EXTENDS Integers, Sequences, FiniteSets, TLC

(* Longest list of function calls the decision model returns in the model. *)
MaxCalls == 2

(* Most secrets that fail to load one by one while the secret client works *)
(* (when the client itself fails, all of them are missing).                *)
MaxAbsent == 1

(* The temperature slider: minimum, maximum, default. *)
TempMin == 15
TempMax == 45
TempDefault == 26

(* The temperature above which the safety protocol of the system prompt    *)
(* asks for a call and open windows.                                       *)
HeatThreshold == 35

(* Slider positions the user moves to, besides the default it starts at:   *)
(* both ends and the first position above the protocol's threshold.  No    *)
(* statement of the run reads the temperature except to put it into the    *)
(* prompt.                                                                 *)
TempSamples == {TempMin, HeatThreshold + 1, TempMax}

(***************************************************************************)
(* Secrets                                                                 *)
(***************************************************************************)
required_secrets ==
    {"TWILIO_ACCOUNT_SID", "TWILIO_AUTH_TOKEN", "TWILIO_PHONE_NUMBER",
     "TWILIO_SMS_NUMBER", "OWNER_PHONE_NUMBER"}

(* load_secrets: TRUE for a secret whose value was read, FALSE for None.   *)
(* When the client cannot be built the dict stays empty and every          *)
(* SECRETS.get(..) is None.                                                *)
load_secrets(client_ok, readable) ==
    [s \in required_secrets |-> client_ok /\ s \in readable]

(* The sets of secrets the secret manager lets the process read. *)
ReadableSets ==
    {r \in SUBSET required_secrets : Cardinality(required_secrets \ r) <= MaxAbsent}

(***************************************************************************)
(* Text of the Observer response, as a sequence of tokens: the fence       *)
(* markers (three backquotes, with or without the json tag), a newline,    *)
(* the braces, one token per object member, an array literal, and a word   *)
(* of prose.                                                               *)
(***************************************************************************)
FenceJson == "FENCE_JSON"
Fence     == "FENCE"
NL        == "NEWLINE"
LBrace    == "{"
RBrace    == "}"
Prose     == "prose"
ArrayLit  == "[]"
SdTrue    == "subject_detected: true"
SdFalse   == "subject_detected: false"
AnxHigh   == "anxiety_level: High"
AnxLow    == "anxiety_level: Low"
AnxRelax  == "anxiety_level: Relax"
AnxNone   == "anxiety_level: None"

Members == {SdTrue, SdFalse, AnxHigh, AnxLow, AnxRelax, AnxNone}

RECURSIVE DropWs(_)
DropWs(t) == IF t # <<>> /\ Head(t) = NL THEN DropWs(Tail(t)) ELSE t

(* First substitution: an opening json fence and the whitespace after it   *)
(* are removed wherever they occur.                                        *)
RECURSIVE StripFenceJson(_)
StripFenceJson(t) ==
    IF t = <<>> THEN <<>>
    ELSE IF Head(t) = FenceJson THEN StripFenceJson(DropWs(Tail(t)))
    ELSE <<Head(t)>> \o StripFenceJson(Tail(t))

(* Second substitution (multi-line mode): a fence is removed when only     *)
(* whitespace separates it from the end of its line; the greedy whitespace *)
(* match gives back the last newline when text follows it.                 *)
RECURSIVE StripFenceEol(_)
StripFenceEol(t) ==
    IF t = <<>> THEN <<>>
    ELSE IF Head(t) = Fence
         THEN LET rest == Tail(t)
                  r    == DropWs(rest)
              IN  IF r = <<>> THEN <<>>
                  ELSE IF Len(r) < Len(rest) THEN <<NL>> \o StripFenceEol(r)
                  ELSE <<Fence>> \o StripFenceEol(rest)
    ELSE <<Head(t)>> \o StripFenceEol(Tail(t))

(* str.find / str.rfind: 0 stands for -1 (not found). *)
Find(t, tok) ==
    IF \E i \in 1..Len(t) : t[i] = tok
    THEN CHOOSE i \in 1..Len(t) : t[i] = tok /\ \A j \in 1..(i-1) : t[j] # tok
    ELSE 0

RFind(t, tok) ==
    IF \E i \in 1..Len(t) : t[i] = tok
    THEN CHOOSE i \in 1..Len(t) : t[i] = tok /\ \A j \in (i+1)..Len(t) : t[j] # tok
    ELSE 0

(* The cleanup pass on a non-empty text: both substitutions, then the span *)
(* from the first opening brace to the last closing brace when both exist. *)
Cleanup(text) ==
    LET t     == StripFenceEol(StripFenceJson(text))
        start == Find(t, LBrace)
        end   == RFind(t, RBrace)
    IN  IF start # 0 /\ end # 0 THEN SubSeq(t, start, end) ELSE t

(* Faulty variant: the default for an empty text is forgotten. *)
clean_json_text_no_default(text) == Cleanup(text)

clean_json_text(text) ==
    IF text = <<>> THEN <<LBrace, RBrace>> ELSE Cleanup(text)

(***************************************************************************)
(* json.loads on the token text: an object of members, or an array         *)
(* literal, with whitespace allowed around and between tokens.             *)
(***************************************************************************)
NoWs(t) == SelectSeq(t, LAMBDA x : x # NL)

IsObjectText(t) ==
    LET u == NoWs(t)
    IN  /\ Len(u) >= 2
        /\ u[1] = LBrace
        /\ u[Len(u)] = RBrace
        /\ \A i \in 2..(Len(u)-1) : u[i] \in Members

IsArrayText(t) == NoWs(t) = <<ArrayLit>>

JsonValid(t) == IsObjectText(t) \/ IsArrayText(t)

(* The value of a key of the parsed object: the last member wins. *)
RECURSIVE LastOf(_, _, _)
LastOf(u, cands, dflt) ==
    IF u = <<>> THEN dflt
    ELSE IF u[Len(u)] \in DOMAIN cands THEN cands[u[Len(u)]]
    ELSE LastOf(SubSeq(u, 1, Len(u)-1), cands, dflt)

SdValues  == (SdTrue :> "true") @@ (SdFalse :> "false")
AnxValues == (AnxHigh :> "High") @@ (AnxLow :> "Low") @@
             (AnxRelax :> "Relax") @@ (AnxNone :> "None")

EmptyObject ==
    [kind |-> "object", subject_detected |-> "missing", anxiety_level |-> "missing"]

NoData == [kind |-> "unset", subject_detected |-> "missing", anxiety_level |-> "missing"]

json_loads(t) ==
    IF IsArrayText(t)
    THEN [kind |-> "array", subject_detected |-> "missing", anxiety_level |-> "missing"]
    ELSE [kind |-> "object",
          subject_detected |-> LastOf(NoWs(t), SdValues, "missing"),
          anxiety_level    |-> LastOf(NoWs(t), AnxValues, "missing")]

(***************************************************************************)
(* Function calls of a decision-model response: a name and the value of    *)
(* the one argument key the dispatcher reads for that name.                *)
(***************************************************************************)
ActionNames == {"send_sms_alert", "make_emergency_call", "open_car_windows", "play_music"}

UndeclaredName == "unlock_doors"

ArgAbsent == "ABSENT"

IntLiterals == ("50" :> 50) @@ ("150" :> 150)

Calls ==
    [name : {"send_sms_alert", "play_music", UndeclaredName}, arg : {"msg"}]
    \cup [name : {"make_emergency_call"}, arg : {"msg", ArgAbsent}]
    \cup [name : {"open_car_windows"}, arg : {"50", "150", "half"}]

CallLists == UNION {[1..n -> Calls] : n \in 0..MaxCalls}

(* What the second response of the chat can hold besides (or instead of)   *)
(* its text.                                                               *)
FinalCallLists ==
    {<<>>, <<[name |-> "make_emergency_call", arg |-> "msg"]>>}

(* Replies of the Observer model. *)
ObserverTexts ==
    { <<>>,
      <<LBrace, RBrace>>,
      <<LBrace, SdFalse, AnxNone, RBrace>>,
      <<LBrace, SdFalse, AnxHigh, RBrace>>,
      <<LBrace, AnxHigh, RBrace>>,
      <<LBrace, SdTrue, AnxHigh, RBrace>>,
      <<FenceJson, NL, LBrace, SdTrue, AnxRelax, RBrace, NL, Fence>>,
      <<Prose, LBrace, SdFalse, AnxLow, RBrace, Prose>>,
      <<FenceJson, NL, LBrace, SdFalse, AnxNone, RBrace, NL, Fence, NL>>,
      <<LBrace, SdTrue, AnxHigh>>,
      <<Prose>>,
      <<NL>>,
      <<RBrace, SdTrue, LBrace>>,
      <<LBrace, Prose, RBrace>>,
      <<ArrayLit>> }

(***************************************************************************)
(* Outcome strings                                                         *)
(***************************************************************************)
NotConfigured == "Error: Twilio is not configured."
SmsSent       == "SMS sent."
SmsFailed     == "Error: SMS sending failed"
CallPlaced    == "Call placed."
CallFailed    == "Error: call failed"
Placeholder   == "Error"

VARIABLES
    SECRETS,            \* the cached secrets: secret id -> loaded or None
    car_temp,           \* the temperature slider
    pc,                 \* where the run is
    r1_text,            \* text of the Observer response
    obs_data,           \* the parsed observation
    function_calls,     \* function calls of the first decision response
    idx,                \* calls of the loop already dispatched
    function_responses, \* the parts collected for the second turn
    second_turn,        \* what the second model turn was sent
    final_res,          \* the second response
    executed,           \* action functions invoked in this run, in order
    outcome,            \* the banner the run ended with
    failed,             \* the step that raised, if any
    model_calls         \* model calls made in this run

vars == <<SECRETS, car_temp, pc, r1_text, obs_data, function_calls, idx,
          function_responses, second_turn, final_res, executed, outcome,
          failed, model_calls>>

TWILIO_SID        == SECRETS["TWILIO_ACCOUNT_SID"]
TWILIO_TOKEN      == SECRETS["TWILIO_AUTH_TOKEN"]
TWILIO_FROM_PHONE == SECRETS["TWILIO_PHONE_NUMBER"]
TWILIO_SMS_NUMBER == SECRETS["TWILIO_SMS_NUMBER"]
TWILIO_TO         == SECRETS["OWNER_PHONE_NUMBER"]

(***************************************************************************)
(* The four action functions.  provider_ok: the provider call returned     *)
(* rather than raised.  contacted: the provider client was used.           *)
(***************************************************************************)
(* Faulty variant: the guard forgets the auth token. *)
TwilioConfigured_sid_only == TWILIO_SID

TwilioConfigured == TWILIO_SID /\ TWILIO_TOKEN

send_sms_alert(message, provider_ok) ==
    IF ~TwilioConfigured THEN [ret |-> NotConfigured, contacted |-> FALSE]
    ELSE IF provider_ok THEN [ret |-> SmsSent, contacted |-> TRUE]
    ELSE [ret |-> SmsFailed, contacted |-> TRUE]

make_emergency_call(message, provider_ok) ==
    IF ~TwilioConfigured THEN [ret |-> NotConfigured, contacted |-> FALSE]
    ELSE IF provider_ok THEN [ret |-> CallPlaced, contacted |-> TRUE]
    ELSE [ret |-> CallFailed, contacted |-> TRUE]

open_car_windows(level) ==
    [ret |-> "Opening windows " \o ToString(level) \o "%.", contacted |-> FALSE]

play_music(track_type) ==
    [ret |-> "Playing music. " \o track_type, contacted |-> FALSE]

(***************************************************************************)
(* One pass of the dispatch loop body on one call: whether it raised, the  *)
(* action functions it invoked, and the result it computed.                *)
(***************************************************************************)
Raised(invoked) == [raised |-> TRUE, invoked |-> invoked, result |-> Placeholder]

(* Faulty variant: the returned outcome is not stored in result. *)
Returned_placeholder(fn, r) ==
    [raised  |-> FALSE,
     invoked |-> <<[fn |-> fn, ret |-> r.ret, contacted |-> r.contacted]>>,
     result  |-> Placeholder]

Returned(fn, r) ==
    [raised  |-> FALSE,
     invoked |-> <<[fn |-> fn, ret |-> r.ret, contacted |-> r.contacted]>>,
     result  |-> r.ret]

(* Faulty variant: the last branch is an else, so that any other name      *)
(* plays music.                                                            *)
DispatchCall_fallback(call, provider_ok) ==
    IF call.arg = ArgAbsent THEN Raised(<<>>)
    ELSE IF call.name = "send_sms_alert"
         THEN Returned("send_sms_alert", send_sms_alert(call.arg, provider_ok))
    ELSE IF call.name = "make_emergency_call"
         THEN Returned("make_emergency_call", make_emergency_call(call.arg, provider_ok))
    ELSE IF call.name = "open_car_windows"
         THEN IF call.arg \notin DOMAIN IntLiterals THEN Raised(<<>>)
              ELSE LET level == IntLiterals[call.arg]
                       r     == open_car_windows(level)
                   IN  IF level \in 0..100 THEN Returned("open_car_windows", r)
                       ELSE Raised(<<[fn |-> "open_car_windows", ret |-> r.ret,
                                      contacted |-> FALSE]>>)
    ELSE Returned("play_music", play_music(call.arg))

DispatchCall(call, provider_ok) ==
    IF call.name = "send_sms_alert"
    THEN IF call.arg = ArgAbsent THEN Raised(<<>>)
         ELSE Returned("send_sms_alert", send_sms_alert(call.arg, provider_ok))
    ELSE IF call.name = "make_emergency_call"
    THEN IF call.arg = ArgAbsent THEN Raised(<<>>)
         ELSE Returned("make_emergency_call", make_emergency_call(call.arg, provider_ok))
    ELSE IF call.name = "open_car_windows"
    THEN IF call.arg = ArgAbsent \/ call.arg \notin DOMAIN IntLiterals THEN Raised(<<>>)
         ELSE LET level == IntLiterals[call.arg]
                  r     == open_car_windows(level)
              IN  IF level \in 0..100 THEN Returned("open_car_windows", r)
                  ELSE Raised(<<[fn |-> "open_car_windows", ret |-> r.ret,
                                 contacted |-> FALSE]>>)
    ELSE IF call.name = "play_music"
    THEN IF call.arg = ArgAbsent THEN Raised(<<>>)
         ELSE Returned("play_music", play_music(call.arg))
    ELSE [raised |-> FALSE, invoked |-> <<>>, result |-> Placeholder]

(* The log entries of one loop pass: the invoked functions, tagged with    *)
(* the position and the call they were invoked for.                        *)
Logged(i, call, invoked) ==
    [k \in 1..Len(invoked) |->
        [at |-> i, call |-> call, fn |-> invoked[k].fn, ret |-> invoked[k].ret,
         contacted |-> invoked[k].contacted]]

(* The guard on the parsed observation: subject_detected absent or false. *)
(* Faulty variant: only an explicit false stops the run. *)
NoSubject_missing_passes(d) == d.subject_detected = "false"

NoSubject(d) == d.subject_detected # "true"

(***************************************************************************)
(* State machine of a run                                                  *)
(***************************************************************************)
NoCalls == [observer |-> 0, decision |-> 0, final |-> 0]

Unsent == [sent |-> FALSE, parts |-> <<>>]

NoFinal == [received |-> FALSE, function_calls |-> <<>>]

FreshRun ==
    /\ r1_text = <<>>
    /\ obs_data = NoData
    /\ function_calls = <<>>
    /\ idx = 0
    /\ function_responses = <<>>
    /\ second_turn = Unsent
    /\ final_res = NoFinal
    /\ executed = <<>>
    /\ outcome = "none"
    /\ failed = "none"
    /\ model_calls = NoCalls

Init ==
    /\ \E client_ok \in BOOLEAN, readable \in ReadableSets :
          SECRETS = load_secrets(client_ok, readable)
    /\ car_temp = TempDefault
    /\ pc = "Idle"
    /\ FreshRun

RunVars == <<r1_text, obs_data, function_calls, idx, function_responses,
             second_turn, final_res, executed, outcome, failed, model_calls>>

(* The user moves the temperature slider while no run is shown. *)
SetCarTemp(t) ==
    /\ pc = "Idle"
    /\ car_temp' = t
    /\ UNCHANGED <<SECRETS, pc, RunVars>>

(* The run button is pressed. *)
Trigger ==
    /\ pc = "Idle"
    /\ pc' = "Observing"
    /\ UNCHANGED <<SECRETS, car_temp, RunVars>>

End(banner, cause) ==
    /\ pc' = "Done"
    /\ outcome' = banner
    /\ failed' = cause

(* Faulty variant: the error of the Observer call is swallowed and the run *)
(* goes on to the decision stage.                                          *)
ObserverFail_swallowed ==
    /\ pc = "Observing"
    /\ model_calls' = [model_calls EXCEPT !.observer = @ + 1]
    /\ pc' = "Deciding"
    /\ failed' = "observer_call"
    /\ UNCHANGED <<SECRETS, car_temp, r1_text, obs_data, function_calls, idx,
                   function_responses, second_turn, final_res, executed, outcome>>

(* The Observer call raises: Observer Error, st.stop(). *)
ObserverFail ==
    /\ pc = "Observing"
    /\ model_calls' = [model_calls EXCEPT !.observer = @ + 1]
    /\ End("ObserverError", "observer_call")
    /\ UNCHANGED <<SECRETS, car_temp, r1_text, obs_data, function_calls, idx,
                   function_responses, second_turn, final_res, executed>>

(* The Observer call returns text: clean, parse, subject_detected guard. *)
ObserverReply(text) ==
    /\ pc = "Observing"
    /\ model_calls' = [model_calls EXCEPT !.observer = @ + 1]
    /\ r1_text' = text
    /\ LET cleaned == clean_json_text(text)
       IN  IF ~JsonValid(cleaned)
           THEN /\ obs_data' = NoData
                /\ End("ObserverError", "parse")
           ELSE LET d == json_loads(cleaned)
                IN  /\ obs_data' = d
                    /\ IF d.kind # "object"
                       THEN End("ObserverError", "not_an_object")
                       ELSE IF NoSubject(d)
                       THEN End("NoSubject", "none")
                       ELSE /\ pc' = "Deciding"
                            /\ UNCHANGED <<outcome, failed>>
    /\ UNCHANGED <<SECRETS, car_temp, function_calls, idx, function_responses,
                   second_turn, final_res, executed>>

(* The first decision call raises: Agent Error. *)
DecisionFail ==
    /\ pc = "Deciding"
    /\ model_calls' = [model_calls EXCEPT !.decision = @ + 1]
    /\ End("AgentError", "decision_call")
    /\ UNCHANGED <<SECRETS, car_temp, r1_text, obs_data, function_calls, idx,
                   function_responses, second_turn, final_res, executed>>

(* The first decision call returns its function calls (possibly none). *)
DecisionReply(calls) ==
    /\ pc = "Deciding"
    /\ model_calls' = [model_calls EXCEPT !.decision = @ + 1]
    /\ function_calls' = calls
    /\ pc' = IF calls = <<>> THEN "Reporting" ELSE "Executing"
    /\ UNCHANGED <<SECRETS, car_temp, r1_text, obs_data, idx, function_responses,
                   second_turn, final_res, executed, outcome, failed>>

(* Faulty variant: the loop does not end after the last call. *)
Dispatch_never_leaves(provider_ok) ==
    /\ pc = "Executing"
    /\ idx < Len(function_calls)
    /\ LET call == function_calls[idx + 1]
           x    == DispatchCall(call, provider_ok)
       IN  /\ executed' = executed \o Logged(idx + 1, call, x.invoked)
           /\ IF x.raised
              THEN /\ End("AgentError", "dispatch")
                   /\ UNCHANGED <<idx, function_responses>>
              ELSE /\ function_responses' =
                          Append(function_responses,
                                 [name |-> call.name, result |-> x.result])
                   /\ idx' = idx + 1
                   /\ UNCHANGED <<pc, outcome, failed>>
    /\ UNCHANGED <<SECRETS, car_temp, r1_text, obs_data, function_calls,
                   second_turn, final_res, model_calls>>

(* One pass of the loop over function_calls. *)
Dispatch(provider_ok) ==
    /\ pc = "Executing"
    /\ idx < Len(function_calls)
    /\ LET call == function_calls[idx + 1]
           x    == DispatchCall(call, provider_ok)
       IN  /\ executed' = executed \o Logged(idx + 1, call, x.invoked)
           /\ IF x.raised
              THEN /\ End("AgentError", "dispatch")
                   /\ UNCHANGED <<idx, function_responses>>
              ELSE /\ function_responses' =
                          Append(function_responses,
                                 [name |-> call.name, result |-> x.result])
                   /\ idx' = idx + 1
                   /\ pc' = IF idx + 1 = Len(function_calls)
                            THEN "Reporting" ELSE "Executing"
                   /\ UNCHANGED <<outcome, failed>>
    /\ UNCHANGED <<SECRETS, car_temp, r1_text, obs_data, function_calls,
                   second_turn, final_res, model_calls>>

(* No function call was requested: the banner that no intervention is      *)
(* needed.                                                                 *)
ReportNoActions ==
    /\ pc = "Reporting"
    /\ function_calls = <<>>
    /\ End("NoActions", "none")
    /\ UNCHANGED <<SECRETS, car_temp, r1_text, obs_data, function_calls, idx,
                   function_responses, second_turn, final_res, executed,
                   model_calls>>

(* The second turn raises, or reading the text of its response does (a     *)
(* response without a text part): Agent Error.                             *)
FinalFail ==
    /\ pc = "Reporting"
    /\ function_calls # <<>>
    /\ second_turn' = [sent |-> TRUE, parts |-> function_responses]
    /\ model_calls' = [model_calls EXCEPT !.final = @ + 1]
    /\ End("AgentError", "final_call")
    /\ UNCHANGED <<SECRETS, car_temp, r1_text, obs_data, function_calls, idx,
                   function_responses, final_res, executed>>

(* Faulty variant: the function calls of the second response are run. *)
FinalReply_runs_calls(calls) ==
    /\ pc = "Reporting"
    /\ function_calls # <<>>
    /\ second_turn' = [sent |-> TRUE, parts |-> function_responses]
    /\ model_calls' = [model_calls EXCEPT !.final = @ + 1]
    /\ final_res' = [received |-> TRUE, function_calls |-> calls]
    /\ executed' = executed \o
          [k \in 1..Len(calls) |->
              [at |-> k, call |-> calls[k], fn |-> calls[k].name,
               ret |-> DispatchCall(calls[k], TRUE).result, contacted |-> FALSE]]
    /\ End("Reported", "none")
    /\ UNCHANGED <<SECRETS, car_temp, r1_text, obs_data, function_calls, idx,
                   function_responses>>

(* The second turn returns and its text is shown.  Function calls of this  *)
(* response are not read.                                                  *)
FinalReply(calls) ==
    /\ pc = "Reporting"
    /\ function_calls # <<>>
    /\ second_turn' = [sent |-> TRUE, parts |-> function_responses]
    /\ model_calls' = [model_calls EXCEPT !.final = @ + 1]
    /\ final_res' = [received |-> TRUE, function_calls |-> calls]
    /\ End("Reported", "none")
    /\ UNCHANGED <<SECRETS, car_temp, r1_text, obs_data, function_calls, idx,
                   function_responses, executed>>

(* The page is run again: nothing of the run is kept. *)
Rerun ==
    /\ pc = "Done"
    /\ pc' = "Idle"
    /\ r1_text' = <<>>
    /\ obs_data' = NoData
    /\ function_calls' = <<>>
    /\ idx' = 0
    /\ function_responses' = <<>>
    /\ second_turn' = Unsent
    /\ final_res' = NoFinal
    /\ executed' = <<>>
    /\ outcome' = "none"
    /\ failed' = "none"
    /\ model_calls' = NoCalls
    /\ UNCHANGED <<SECRETS, car_temp>>

ObserverStep == ObserverFail \/ \E text \in ObserverTexts : ObserverReply(text)

DecisionStep == DecisionFail \/ \E calls \in CallLists : DecisionReply(calls)

DispatchStep == \E provider_ok \in BOOLEAN : Dispatch(provider_ok)

ReportStep ==
    \/ ReportNoActions
    \/ FinalFail
    \/ \E calls \in FinalCallLists : FinalReply(calls)

(* The steps up to the end of one run. *)
NextInRun ==
    \/ \E t \in TempSamples : SetCarTemp(t)
    \/ Trigger
    \/ ObserverFail
    \/ \E text \in ObserverTexts : ObserverReply(text)
    \/ DecisionFail
    \/ \E calls \in CallLists : DecisionReply(calls)
    \/ \E provider_ok \in BOOLEAN : Dispatch(provider_ok)
    \/ ReportNoActions
    \/ FinalFail
    \/ \E calls \in FinalCallLists : FinalReply(calls)

Next == NextInRun \/ Rerun

Spec == Init /\ [][Next]_vars

(* A step of a started run.  At most one kind of step is enabled at any    *)
(* stage of the run.                                                       *)
RunStep == ObserverStep \/ DecisionStep \/ DispatchStep \/ ReportStep

(* One run, from the page as first shown to the end of the run.  Every     *)
(* step of a started run is a synchronous call of one sequential script:   *)
(* it returns or raises, and the script goes on.  Pressing the button and  *)
(* moving the slider are up to the user and are not required to happen.    *)
LiveSpec == Init /\ [][NextInRun]_vars /\ WF_vars(RunStep)

(***************************************************************************)
(* Vocabulary of the properties                                            *)
(***************************************************************************)
Messaging == {"send_sms_alert", "make_emergency_call"}

ExecutedFns == {executed[k].fn : k \in 1..Len(executed)}

(* The loop raised on the call at position idx + 1 because its argument    *)
(* is missing, is no integer, or is a window level outside 0..100.         *)
ArgumentFailure ==
    /\ failed = "dispatch"
    /\ LET call == function_calls[idx + 1]
       IN  \/ call.arg = ArgAbsent
           \/ /\ call.name = "open_car_windows"
              /\ \/ call.arg \notin DOMAIN IntLiterals
                 \/ IntLiterals[call.arg] \notin 0..100

(* The transitions of the per-run state machine, with the condition each   *)
(* is taken under.                                                         *)
RunTransition ==
    \/ pc = "Idle" /\ pc' = "Observing"
    \/ pc = "Observing" /\ pc' = "Done" /\ outcome' \in {"NoSubject", "ObserverError"}
    \/ pc = "Observing" /\ pc' = "Deciding" /\ obs_data'.subject_detected = "true"
    \/ pc = "Deciding" /\ pc' = "Reporting" /\ function_calls' = <<>>
    \/ pc = "Deciding" /\ pc' = "Executing" /\ function_calls' # <<>>
    \/ pc = "Deciding" /\ pc' = "Done" /\ outcome' = "AgentError"
    \/ pc = "Executing" /\ pc' = "Reporting" /\ idx' = Len(function_calls)
    \/ pc = "Executing" /\ pc' = "Done" /\ outcome' = "AgentError"
    \/ pc = "Reporting" /\ pc' = "Done"
    \/ pc = "Done" /\ pc' = "Idle" /\ model_calls' = NoCalls

(***************************************************************************)
(* C1.  When the parsed observation has subject_detected false or missing, *)
(* the run has ended at the Observer stage with the no-subject banner: the *)
(* decision model was not called and no action function was invoked,       *)
(* whatever the temperature and the anxiety_level.  (A parsed value that   *)
(* is no object has no such field to read: the run ends at the Observer    *)
(* stage too, with the Observer Error banner.)                             *)
(***************************************************************************)
C1_NoSubjectEndsRun ==
    /\ (obs_data.kind = "object" /\ obs_data.subject_detected # "true")
          => /\ pc = "Done"
             /\ outcome = "NoSubject"
             /\ model_calls.decision = 0
             /\ model_calls.final = 0
             /\ function_calls = <<>>
             /\ executed = <<>>
    /\ obs_data.kind = "array"
          => /\ pc = "Done"
             /\ outcome = "ObserverError"
             /\ model_calls.decision = 0
             /\ executed = <<>>

C1_Witness ==
    /\ pc = "Done"
    /\ outcome = "NoSubject"
    /\ obs_data.subject_detected = "false"
    /\ obs_data.anxiety_level = "High"
    /\ car_temp > HeatThreshold

(***************************************************************************)
(* C2.  Every change of stage is a transition of the state machine         *)
(* Idle -> Observing -> (Done | Deciding) -> (Reporting | Executing ->     *)
(* Reporting) -> Done, taken under its condition (an error leads to Done); *)
(* the transitions only go forward, so no stage is entered twice in a run; *)
(* and a started run eventually reaches Done.                              *)
(***************************************************************************)
C2_RunFollowsStateMachine ==
    /\ [][pc' # pc => RunTransition]_vars
    /\ (pc = "Observing") ~> (pc = "Done")

C2_Witness ==
    /\ pc = "Done"
    /\ outcome = "Reported"
    /\ Len(function_calls) = MaxCalls
    /\ idx = MaxCalls

(***************************************************************************)
(* C3 as stated: with any one of the five secrets absent, every invocation *)
(* of send_sms_alert and make_emergency_call returns the not-configured    *)
(* outcome.                                                                *)
(***************************************************************************)
C3_AnySecretAbsentNotConfigured ==
    (\E sec \in required_secrets : ~SECRETS[sec])
        => \A k \in 1..Len(executed) :
              executed[k].fn \in Messaging => executed[k].ret = NotConfigured

(***************************************************************************)
(* C3 amended.  With the account id or the auth token absent, the two      *)
(* messaging actions return the not-configured outcome without using the   *)
(* provider; with both present they use the provider (whatever numbers are *)
(* absent) and return its success or failure outcome.  In no case does a   *)
(* messaging action that was given its message raise: the loop records its *)
(* outcome and goes on.                                                    *)
(***************************************************************************)
C3_CredentialsAbsentNotConfigured ==
    /\ \A k \in 1..Len(executed) :
          executed[k].fn \in Messaging =>
             IF SECRETS["TWILIO_ACCOUNT_SID"] /\ SECRETS["TWILIO_AUTH_TOKEN"]
             THEN /\ executed[k].contacted
                  /\ executed[k].ret \in {SmsSent, SmsFailed, CallPlaced, CallFailed}
             ELSE /\ ~executed[k].contacted
                  /\ executed[k].ret = NotConfigured
    /\ failed = "dispatch" =>
          ~(/\ function_calls[idx + 1].name \in Messaging
            /\ function_calls[idx + 1].arg # ArgAbsent)
    /\ \A i \in 1..idx :
          (function_calls[i].name \in Messaging) =>
              \E k \in 1..Len(executed) :
                  /\ executed[k].at = i
                  /\ function_responses[i].result = executed[k].ret

C3_Witness ==
    /\ outcome = "Reported"
    /\ SECRETS["TWILIO_ACCOUNT_SID"]
    /\ ~SECRETS["TWILIO_AUTH_TOKEN"]
    /\ Len(executed) = 2
    /\ executed[1].fn = "send_sms_alert"
    /\ executed[2].fn = "make_emergency_call"
    /\ function_responses[1].result = NotConfigured
    /\ function_responses[2].result = NotConfigured

(* The Observer call returned a text (it did not raise). *)
ObserverReplied == model_calls.observer = 1 /\ failed # "observer_call"

(***************************************************************************)
(* C4 as stated: when the Observer text is empty, or is not valid JSON     *)
(* after the cleanup pass, the observation is the empty object and the run *)
(* ends with the no-subject banner.                                        *)
(***************************************************************************)
C4_MalformedFallsBackToEmptyObject ==
    (ObserverReplied /\ (r1_text = <<>> \/ ~JsonValid(Cleanup(r1_text))))
        => obs_data = EmptyObject /\ outcome = "NoSubject"

(***************************************************************************)
(* C4 amended.  An empty Observer text becomes the empty object and the    *)
(* run ends with the no-subject banner.  A non-empty text that is not      *)
(* valid JSON after the cleanup pass makes the parse raise: the run ends   *)
(* with the Observer Error banner and no observation.  In both cases the   *)
(* decision model is not called and no action function is invoked.         *)
(***************************************************************************)
C4_EmptyFallsBackMalformedAborts ==
    /\ (ObserverReplied /\ r1_text = <<>>)
          => obs_data = EmptyObject /\ outcome = "NoSubject" /\ failed = "none"
    /\ (ObserverReplied /\ r1_text # <<>> /\ ~JsonValid(Cleanup(r1_text)))
          => obs_data = NoData /\ outcome = "ObserverError" /\ failed = "parse"
    /\ (ObserverReplied /\ (r1_text = <<>> \/ ~JsonValid(Cleanup(r1_text))))
          => pc = "Done" /\ model_calls.decision = 0 /\ executed = <<>>

C4_Witness ==
    /\ pc = "Done"
    /\ r1_text = <<LBrace, SdTrue, AnxHigh>>
    /\ outcome = "ObserverError"
    /\ failed = "parse"

(***************************************************************************)
(* C5 as stated: a requested action whose arguments fail the shape or      *)
(* range checks does not abort the run.  When the first decision response  *)
(* requested actions and no model call failed, every requested action has  *)
(* been dispatched and the second turn has been sent by the time the run   *)
(* is done.                                                                *)
(***************************************************************************)
C5_ArgumentFailureDoesNotAbort ==
    /\ ~ArgumentFailure
    /\ (/\ pc = "Done"
        /\ function_calls # <<>>
        /\ failed \notin {"decision_call", "final_call"})
          => /\ idx = Len(function_calls)
             /\ Len(function_responses) = Len(function_calls)
             /\ second_turn.sent

(***************************************************************************)
(* C6.  Only the four declared action functions are ever invoked, each for *)
(* a function call of that same name; a function call of any other name    *)
(* invokes none of them and yields the placeholder outcome.                *)
(***************************************************************************)
C6_OnlyDeclaredActionsRun ==
    /\ \A k \in 1..Len(executed) :
          /\ executed[k].fn \in ActionNames
          /\ executed[k].at \in 1..Len(function_calls)
          /\ function_calls[executed[k].at].name = executed[k].fn
    /\ \A i \in 1..Len(function_responses) :
          function_calls[i].name \notin ActionNames
             => /\ function_responses[i].result = Placeholder
                /\ \A k \in 1..Len(executed) : executed[k].at # i

C6_Witness ==
    /\ outcome = "Reported"
    /\ Len(function_calls) = 2
    /\ function_calls[1].name = UndeclaredName
    /\ function_calls[2].name = "play_music"
    /\ function_responses[1].result = Placeholder
    /\ Len(executed) = 1
    /\ executed[1].at = 2

(***************************************************************************)
(* C7.  What the second model turn is sent holds one function response     *)
(* per requested call, in request order, each with the call's name and     *)
(* with the very outcome the invoked action function returned.             *)
(***************************************************************************)
C7_SecondTurnCarriesOutcomes ==
    second_turn.sent
        => /\ Len(second_turn.parts) = Len(function_calls)
           /\ \A i \in 1..Len(function_calls) :
                 /\ second_turn.parts[i].name = function_calls[i].name
                 /\ function_calls[i].name \in ActionNames
                       => \E k \in 1..Len(executed) : executed[k].at = i
           /\ \A k \in 1..Len(executed) :
                 second_turn.parts[executed[k].at].result = executed[k].ret

C7_Witness ==
    /\ second_turn.sent
    /\ Len(second_turn.parts) = 2
    /\ second_turn.parts[1] = [name |-> "make_emergency_call", result |-> CallPlaced]
    /\ second_turn.parts[2].name = "open_car_windows"
    /\ second_turn.parts[2].result = executed[2].ret
    /\ executed[2].call.arg = "50"

(***************************************************************************)
(* C8.  Each of the three model calls is made at most once in a run.  When *)
(* the Observer call fails the run is over, the decision model was not     *)
(* called and no action function was invoked; when the first decision call *)
(* fails the run is over, no action function was invoked and the second    *)
(* turn was not sent; when the second turn fails the run is over.          *)
(***************************************************************************)
C8_FailedModelCallAborts ==
    /\ model_calls.observer <= 1
    /\ model_calls.decision <= 1
    /\ model_calls.final <= 1
    /\ failed = "observer_call"
          => pc = "Done" /\ model_calls.decision = 0 /\ executed = <<>>
    /\ failed = "decision_call"
          => pc = "Done" /\ executed = <<>> /\ model_calls.final = 0
    /\ failed = "final_call" => pc = "Done"

C8_Witness ==
    /\ pc = "Done"
    /\ failed = "decision_call"
    /\ model_calls = [observer |-> 1, decision |-> 1, final |-> 0]
    /\ outcome = "AgentError"

(***************************************************************************)
(* C9 as stated: a run that detected a subject at a temperature above 35   *)
(* has invoked both make_emergency_call and open_car_windows when it is    *)
(* done.  It is stated here for the runs in which no step raised, which is *)
(* the least the claim asks for.                                           *)
(***************************************************************************)
C9_HotCarCallsAndOpensWindows ==
    (/\ pc = "Done"
     /\ failed = "none"
     /\ obs_data.subject_detected = "true"
     /\ car_temp > HeatThreshold)
        => {"make_emergency_call", "open_car_windows"} \subseteq ExecutedFns

(***************************************************************************)
(* C10.  Action functions are invoked only for the function calls of the   *)
(* first decision response, in their order and each at most once, so never *)
(* more often than that response has calls; once the loop is over nothing  *)
(* more is invoked, whatever function calls the second response holds.     *)
(***************************************************************************)
C10_ActionsOnlyFromFirstResponse ==
    /\ [](/\ Len(executed) <= Len(function_calls)
          /\ \A k \in 1..Len(executed) :
                /\ executed[k].at \in 1..Len(function_calls)
                /\ executed[k].call = function_calls[executed[k].at]
          /\ \A j, k \in 1..Len(executed) : j < k => executed[j].at < executed[k].at)
    /\ [][(pc \in {"Reporting", "Done"} /\ pc' # "Idle") => (executed' = executed)]_vars

C10_Witness ==
    /\ final_res.received
    /\ final_res.function_calls # <<>>
    /\ Len(function_calls) = 2
    /\ Len(executed) = 2
    /\ pc = "Done"

====
